---- MODULE Spec2Model ----
(***************************************************************************)
(* Model of go-ironrdp-proxy: the tpkt frame reader (ReadFrame,            *)
(* FindPduSize), the rdcleanpath handshake PDU codec (NewResp, Marshal,    *)
(* Unmarshal) and the proxy session (Handle: handshake and relay).         *)
(* Bytes are naturals 0..255, byte strings are sequences.                  *)
(***************************************************************************)
EXTENDS Integers, Sequences, FiniteSets, TLC

VARIABLES
    stream,     \* tpkt: every byte the reader will ever deliver, in order
    endKind,    \* tpkt: what the reader reports after the last byte: "EOF" or "fault"
    pos,        \* tpkt: number of bytes taken from the reader so far
    start,      \* tpkt: value of pos when the current ReadFrame call began
    pc,         \* tpkt: position inside ReadFrame
    headerBuf,  \* tpkt: ReadFrame's headerBuf
    pduLength,  \* tpkt: pduInfo.Length of the current call (-1 before FindPduSize ran)
    retFrame,   \* tpkt: returned frame bytes (<<>> is the nil slice)
    retAction,  \* tpkt: returned Action
    retErr,     \* tpkt: returned error kind ("nil" is no error)
    cpc,        \* rdcleanpath: how far the codec exchange got
    origin,     \* rdcleanpath: who made the structure: "NewResp", "literal" or "peer"
    args,       \* rdcleanpath: the arguments NewResp was called with
    cleanPathResp,     \* rdcleanpath: the Pdu value handed to Marshal
    peer,       \* rdcleanpath: the message a peer encoded, each member present or absent
    cleanPathRespDer,  \* rdcleanpath: what Marshal returned
    sent,       \* rdcleanpath: the encoded structure put on the wire
    frame,      \* rdcleanpath: the buffer handed to Unmarshal
    decoded,    \* rdcleanpath: what Unmarshal returned
    hpc,        \* proxy: the step Handle is at
    completed,  \* proxy: the handshake steps that succeeded, in the order they did
    handleErr,  \* proxy: what Handle returned ("running" until it returns)
    serverConn, \* proxy: rdpServerConn: "nil", "tcp" after Dial, "tls" after the upgrade
    serverLog,  \* proxy: the calls made on the backend connection during the handshake
    serverGot,  \* proxy: the payload of every Write call the backend connection took
    clientGot,  \* proxy: the messages written to the client's WebSocket
    x224Resp,   \* proxy: the frame read from the backend
    peerCertificates,  \* proxy: the raw certificates the TLS layer reports, in its order
    certChain,  \* proxy: Handle's certChain
    task,       \* relay: where each of the three goroutines of the group is
    closed,     \* relay: whether Close was called on the client and on the backend stream
    pending,    \* relay: chunks that arrived from each peer and were not read yet
    delivered,  \* relay: chunks each peer has sent so far
    peerState,  \* relay: each peer: "open", "eof" (orderly end) or "gone" (fault)
    copied,     \* relay: successful Write calls of the copy loops on each stream
    ctxDone,    \* relay: the ctx passed to Handle was cancelled
    cancelAt,   \* relay: when ctx was cancelled: "never", "handshake" or "Relay"
    groupCtxDone,  \* relay: the group's derived context was cancelled
    groupErr,   \* relay: the first non-nil error a goroutine of the group returned
    lateWrites  \* relay: streams a copy loop wrote to after ctx was cancelled

frameVars == <<stream, endKind, pos, start, pc, headerBuf, pduLength,
               retFrame, retAction, retErr>>
codecVars == <<cpc, origin, args, cleanPathResp, peer, cleanPathRespDer, sent, frame,
               decoded>>
handleVars == <<hpc, completed, handleErr, serverConn, serverLog, serverGot, clientGot,
                x224Resp, peerCertificates, certChain>>
relayVars == <<task, closed, pending, delivered, peerState, copied, ctxDone, cancelAt,
               groupCtxDone, groupErr, lateWrites>>
vars == <<frameVars, codecVars, handleVars, relayVars>>

\* everything a step of ReadFrame leaves alone
notFrameVars == <<codecVars, handleVars, relayVars>>
\* everything a step of the codec leaves alone
notCodecVars == <<frameVars, handleVars, relayVars>>

-----------------------------------------------------------------------------
(* Bounds of the frame reader's inputs *)

\* longest enumerated stream head (every byte of it drawn from SampleBytes)
MaxHdrLen == 4
\* longest short filler appended after the enumerated head
MaxPad == 3

\* byte values the stream heads are built from: 0 and 4 (low bits 00), 2 (10),
\* 129 (low bits 01, and high bit set), 3 (TPKT version), 7 (low bits 11, not 3)
SampleBytes == {0, 2, 3, 4, 7, 129}

\* filler lengths: the short ones, and those that complete a 256..258 byte payload
PadLens == (0..MaxPad) \cup {256, 256 + 1, 256 + 2}

Pad(n) == [i \in 1..n |-> (160 + i) % 256]

RECURSIVE SeqsUpTo(_, _)
SeqsUpTo(S, n) ==
    IF n = 0 THEN {<<>>}
    ELSE LET shorter == SeqsUpTo(S, n - 1)
         IN  shorter \cup {Append(s, b) : s \in {t \in shorter : Len(t) = n - 1}, b \in S}

Streams == {h \o Pad(n) : h \in SeqsUpTo(SampleBytes, MaxHdrLen), n \in PadLens}

-----------------------------------------------------------------------------
(* package tpkt *)

MinHeaderSize == 1
FastPathMinSize == 2
FastPathLargeSize == 3
TPKTHeaderSize == 4

\* fpOutputHeader & 0b11
ActionCode(b) == b % 4

\* a&0x80 != 0
HighBit(a) == a >= 128

\* (uint16(a&0x7F) << 8) | uint16(b)
FastPathLargeLength_NoMask(a, b) == (a * 256 + b) % 65536
FastPathLargeLength(a, b) == ((a % 128) * 256 + b) % 65536

\* binary.BigEndian.Uint16(buf[2:4])
BigEndianUint16_Swapped(hi, lo) == lo * 256 + hi
BigEndianUint16(hi, lo) == hi * 256 + lo

\* length < TPKTHeaderSize is rejected
TpktLengthOk_Always(length) == TRUE
TpktLengthOk(length) == length >= TPKTHeaderSize

NoInfo(e) == [Action |-> "ActionUnknown", Length |-> 0, err |-> e]

FindPduSize(buf) ==
    IF Len(buf) < MinHeaderSize THEN NoInfo("ErrInsufficientData")
    ELSE CASE ActionCode(buf[1]) = 0 ->
                IF Len(buf) < FastPathMinSize THEN NoInfo("ErrInsufficientData")
                ELSE IF HighBit(buf[2])
                     THEN IF Len(buf) < FastPathLargeSize
                          THEN NoInfo("ErrInsufficientData")
                          ELSE [Action |-> "ActionFastPath",
                                Length |-> FastPathLargeLength(buf[2], buf[3]),
                                err |-> "nil"]
                     ELSE [Action |-> "ActionFastPath", Length |-> buf[2], err |-> "nil"]
           [] ActionCode(buf[1]) = 3 ->
                IF Len(buf) < TPKTHeaderSize THEN NoInfo("ErrInsufficientData")
                ELSE IF buf[1] # 3 THEN NoInfo("ErrTpktVersion")
                ELSE IF ~TpktLengthOk(BigEndianUint16(buf[3], buf[4]))
                     THEN NoInfo("ErrInvalidLength")
                ELSE [Action |-> "ActionX224",
                      Length |-> BigEndianUint16(buf[3], buf[4]),
                      err |-> "nil"]
           [] OTHER -> NoInfo("ErrInvalidAction")

\* io.ReadFull(reader, make([]byte, n)) with the reader at position p of s:
\* the bytes taken from the reader and the error ReadFull returns
ReadFull(s, p, n, end) ==
    IF n = 0 THEN [data |-> <<>>, err |-> "nil"]
    ELSE IF Len(s) - p >= n THEN [data |-> SubSeq(s, p + 1, p + n), err |-> "nil"]
    ELSE [data |-> SubSeq(s, p + 1, Len(s)),
          err  |-> IF end = "fault" THEN "fault"
                   ELSE IF Len(s) = p THEN "EOF" ELSE "ErrUnexpectedEOF"]

\* the first read: if err == io.EOF { return ..., io.ErrUnexpectedEOF }; return ..., err
MapProbeEOF_Keep(err) == err
MapProbeEOF(err) == IF err = "EOF" THEN "ErrUnexpectedEOF" ELSE err

\* the later reads: if err == io.EOF { return ..., io.ErrUnexpectedEOF }; return ..., err
MapEOF_Keep(err) == err
MapEOF(err) == IF err = "EOF" THEN "ErrUnexpectedEOF" ELSE err

\* payloadSize := pduInfo.Length - TPKTHeaderSize
TpktPayloadSize_Whole(length) == length
TpktPayloadSize(length) == length - TPKTHeaderSize

\* return nil, ActionUnknown, e
Fail(e) ==
    /\ retFrame' = <<>>
    /\ retAction' = "ActionUnknown"
    /\ retErr' = e
    /\ pc' = "done"

\* a caller invokes ReadFrame(reader); a second call continues on the same reader
CallReadFrame ==
    /\ pc = "idle" \/ (pc = "done" /\ retErr = "nil")
    /\ pc' = "probe"
    /\ start' = pos
    /\ headerBuf' = <<>>
    /\ pduLength' = -1
    /\ retFrame' = <<>>
    /\ retAction' = "ActionUnknown"
    /\ retErr' = "nil"
    /\ UNCHANGED <<stream, endKind, pos, notFrameVars>>

\* read MinHeaderSize bytes and branch on the action code
ReadProbe ==
    /\ pc = "probe"
    /\ LET r == ReadFull(stream, pos, MinHeaderSize, endKind) IN
       /\ pos' = pos + Len(r.data)
       /\ IF r.err # "nil"
          THEN Fail(MapProbeEOF(r.err)) /\ UNCHANGED headerBuf
          ELSE /\ headerBuf' = r.data
               /\ CASE ActionCode(r.data[1]) = 0 ->
                         pc' = "fpExt" /\ UNCHANGED <<retFrame, retAction, retErr>>
                    [] ActionCode(r.data[1]) = 3 ->
                         pc' = "tpktExt" /\ UNCHANGED <<retFrame, retAction, retErr>>
                    [] OTHER -> Fail("ErrInvalidAction")
    /\ UNCHANGED <<stream, endKind, start, pduLength, notFrameVars>>

\* Fast-Path: the second header byte
ReadFastPathExt ==
    /\ pc = "fpExt"
    /\ LET r == ReadFull(stream, pos, FastPathMinSize - MinHeaderSize, endKind) IN
       /\ pos' = pos + Len(r.data)
       /\ IF r.err # "nil"
          THEN Fail(MapEOF(r.err)) /\ UNCHANGED headerBuf
          ELSE /\ headerBuf' = headerBuf \o r.data
               /\ pc' = IF HighBit(r.data[1]) THEN "fpLen" ELSE "fpPayload"
               /\ UNCHANGED <<retFrame, retAction, retErr>>
    /\ UNCHANGED <<stream, endKind, start, pduLength, notFrameVars>>

\* Fast-Path: the third header byte of the large size format
ReadLengthExt ==
    /\ pc = "fpLen"
    /\ LET r == ReadFull(stream, pos, 1, endKind) IN
       /\ pos' = pos + Len(r.data)
       /\ IF r.err # "nil"
          THEN Fail(MapEOF(r.err)) /\ UNCHANGED headerBuf
          ELSE /\ headerBuf' = headerBuf \o r.data
               /\ pc' = "fpPayload"
               /\ UNCHANGED <<retFrame, retAction, retErr>>
    /\ UNCHANGED <<stream, endKind, start, pduLength, notFrameVars>>

\* Fast-Path: FindPduSize on the header, then the payload of pduInfo.Length bytes
ReadFastPathPayload ==
    /\ pc = "fpPayload"
    /\ LET pduInfo == FindPduSize(headerBuf) IN
       IF pduInfo.err # "nil"
       THEN Fail(pduInfo.err) /\ UNCHANGED <<pos, pduLength>>
       ELSE LET r == ReadFull(stream, pos, pduInfo.Length, endKind) IN
            /\ pduLength' = pduInfo.Length
            /\ pos' = pos + Len(r.data)
            /\ IF r.err # "nil"
               THEN Fail(MapEOF(r.err))
               ELSE /\ retFrame' = headerBuf \o r.data
                    /\ retAction' = "ActionFastPath"
                    /\ retErr' = "nil"
                    /\ pc' = "done"
    /\ UNCHANGED <<stream, endKind, start, headerBuf, notFrameVars>>

\* TPKT: the remaining three header bytes
ReadTpktExt ==
    /\ pc = "tpktExt"
    /\ LET r == ReadFull(stream, pos, TPKTHeaderSize - MinHeaderSize, endKind) IN
       /\ pos' = pos + Len(r.data)
       /\ IF r.err # "nil"
          THEN Fail(MapEOF(r.err)) /\ UNCHANGED headerBuf
          ELSE /\ headerBuf' = headerBuf \o r.data
               /\ pc' = "tpktPayload"
               /\ UNCHANGED <<retFrame, retAction, retErr>>
    /\ UNCHANGED <<stream, endKind, start, pduLength, notFrameVars>>

\* TPKT: FindPduSize on the header, then the payload of Length - 4 bytes
ReadTpktPayload ==
    /\ pc = "tpktPayload"
    /\ LET pduInfo == FindPduSize(headerBuf) IN
       IF pduInfo.err # "nil"
       THEN Fail(pduInfo.err) /\ UNCHANGED <<pos, pduLength>>
       ELSE LET payloadSize == TpktPayloadSize(pduInfo.Length) IN
            /\ pduLength' = pduInfo.Length
            /\ IF payloadSize < 0
               THEN Fail("ErrInvalidPayloadSize") /\ UNCHANGED pos
               ELSE LET r == IF payloadSize > 0
                             THEN ReadFull(stream, pos, payloadSize, endKind)
                             ELSE [data |-> <<>>, err |-> "nil"] IN
                    /\ pos' = pos + Len(r.data)
                    /\ IF r.err # "nil"
                       THEN Fail(MapEOF(r.err))
                       ELSE /\ retFrame' = headerBuf \o r.data
                            /\ retAction' = "ActionX224"
                            /\ retErr' = "nil"
                            /\ pc' = "done"
    /\ UNCHANGED <<stream, endKind, start, headerBuf, notFrameVars>>

-----------------------------------------------------------------------------
(* package rdcleanpath: Go values *)

\* a []byte: the nil slice, or a slice holding b
NilBytes == [nil |-> TRUE, b |-> <<>>]
Bytes(b) == [nil |-> FALSE, b |-> b]

\* a [][]byte: the nil slice, or a slice holding the []byte values certs
NilChain == [nil |-> TRUE, certs |-> <<>>]
Chain(certs) == [nil |-> FALSE, certs |-> certs]

\* Err{}: the zero value of the Err struct
ZeroErr == [ErrorCode |-> 0, HttpStatusCode |-> 0, WsaLastError |-> 0, TlsAlertCode |-> 0]

\* Pdu{}: the zero value of the Pdu struct (pdu := &Pdu{})
ZeroPdu ==
    [Version |-> 0, Error |-> ZeroErr, Destination |-> <<>>, ProxyAuth |-> <<>>,
     ServerAuth |-> <<>>, PreconnectionBlob |-> <<>>, X224ConnectionPdu |-> NilBytes,
     ServerCertChain |-> NilChain, ServerAddr |-> <<>>]

\* Version: 3389 + 1
ProtocolVersion == 3389 + 1

NewResp_DropsAddr(serverAddr, x224Pdu, x509Chain) ==
    [ZeroPdu EXCEPT !.Version = ProtocolVersion,
                    !.X224ConnectionPdu = x224Pdu,
                    !.ServerCertChain = x509Chain]
NewResp(serverAddr, x224Pdu, x509Chain) ==
    [ZeroPdu EXCEPT !.Version = ProtocolVersion,
                    !.X224ConnectionPdu = x224Pdu,
                    !.ServerCertChain = x509Chain,
                    !.ServerAddr = serverAddr]

-----------------------------------------------------------------------------
(* encoding/asn1 as Pdu.Marshal uses it: DER encoding *)

ClassUniversal == 0
ClassContextSpecific == 2
TagInteger == 2
TagOctetString == 4
TagUTF8String == 12
TagSequence == 16
TagPrintableString == 19
TagIA5String == 22

RECURSIVE Base256(_)
Base256(n) == IF n < 256 THEN <<n>> ELSE Append(Base256(n \div 256), n % 256)

\* appendTagAndLength: the length octets
EncodeLength(n) ==
    IF n < 128 THEN <<n>> ELSE LET b == Base256(n) IN <<128 + Len(b)>> \o b

\* appendTagAndLength: identifier octet (tag numbers below 31), length, then the body
TLV(class, compound, tag, body) ==
    <<class * 64 + (IF compound THEN 32 ELSE 0) + tag>> \o EncodeLength(Len(body)) \o body

\* makeField with params.explicit: [tag] EXPLICIT around the universal element
Explicit(tag, inner) == TLV(ClassContextSpecific, TRUE, tag, inner)

\* int64Length
RECURSIVE Int64Length(_)
Int64Length(i) == IF i > 127 \/ i < -128 THEN 1 + Int64Length(i \div 256) ELSE 1

\* int64Encoder: minimal two's complement, big-endian
Pow256(k) == 256 ^ k
MakeInt64(i) ==
    LET n == Int64Length(i) IN [j \in 1..n |-> (i \div Pow256(n - j)) % 256]

\* isPrintable(b, allowAsterisk/rejectAsterisk, allowAmpersand/rejectAmpersand)
IsPrintable(b, asterisk, ampersand) ==
    \/ b \in 97..122 \/ b \in 65..90 \/ b \in 48..57
    \/ b \in 39..41 \/ b \in 43..47
    \/ b \in {32, 58, 61, 63}
    \/ (asterisk /\ b = 42)
    \/ (ampersand /\ b = 38)

\* utf8.Valid / utf8.ValidString
RECURSIVE ValidUTF8From(_, _)
ValidUTF8From(s, i) ==
    IF i > Len(s) THEN TRUE
    ELSE LET b == s[i]
             Cont(k, lo, hi) == i + k <= Len(s) /\ s[i + k] >= lo /\ s[i + k] <= hi
         IN  IF b < 128 THEN ValidUTF8From(s, i + 1)
             ELSE IF b \in 194..223 THEN Cont(1, 128, 191) /\ ValidUTF8From(s, i + 2)
             ELSE IF b \in 224..239
                  THEN /\ Cont(1, IF b = 224 THEN 160 ELSE 128, IF b = 237 THEN 159 ELSE 191)
                       /\ Cont(2, 128, 191)
                       /\ ValidUTF8From(s, i + 3)
             ELSE IF b \in 240..244
                  THEN /\ Cont(1, IF b = 240 THEN 144 ELSE 128, IF b = 244 THEN 143 ELSE 191)
                       /\ Cont(2, 128, 191) /\ Cont(3, 128, 191)
                       /\ ValidUTF8From(s, i + 4)
             ELSE FALSE
ValidUTF8(s) == ValidUTF8From(s, 1)

Enc(der) == [err |-> "nil", der |-> der]
EncErr(e) == [err |-> e, der |-> <<>>]

\* makeField for a string member: with the utf8 parameter a UTF8String, not
\* validated; without a string type a PrintableString when every character is
\* printable, else a UTF8String, which must be valid UTF-8
MakeStringField(s, utf8) ==
    IF utf8 THEN Enc(TLV(ClassUniversal, FALSE, TagUTF8String, s))
    ELSE IF \A i \in 1..Len(s) : s[i] < 128 /\ IsPrintable(s[i], FALSE, FALSE)
         THEN Enc(TLV(ClassUniversal, FALSE, TagPrintableString, s))
    ELSE IF ~ValidUTF8(s) THEN EncErr("asn1: string not valid UTF-8")
    ELSE Enc(TLV(ClassUniversal, FALSE, TagUTF8String, s))

\* makeField for an int member
MakeIntField(i) == TLV(ClassUniversal, FALSE, TagInteger, MakeInt64(i))

\* makeField for a []byte: OCTET STRING
MakeBytesField(v) == TLV(ClassUniversal, FALSE, TagOctetString, v.b)

\* makeBody for a [][]byte: SEQUENCE OF OCTET STRING, the elements in slice order
RECURSIVE MakeSequenceOf_Reversed(_)
MakeSequenceOf_Reversed(certs) ==
    IF certs = <<>> THEN <<>>
    ELSE MakeSequenceOf_Reversed(Tail(certs)) \o MakeBytesField(Head(certs))
RECURSIVE MakeSequenceOf(_)
MakeSequenceOf(certs) ==
    IF certs = <<>> THEN <<>>
    ELSE MakeBytesField(Head(certs)) \o MakeSequenceOf(Tail(certs))

\* params.optional && reflect.DeepEqual(v, zero value): the member is left out
OmitString(s) == s = <<>>
OmitBytes_WhenEmpty(v) == v.b = <<>>
OmitBytes(v) == v.nil
OmitChain(v) == v.nil
OmitInt(i) == i = 0
OmitErr(e) == e = ZeroErr

\* struct members: name, tag number, optional, Go kind, utf8 (the asn1 struct tags)
ErrFields ==
    << [name |-> "ErrorCode", tag |-> 0, optional |-> FALSE, kind |-> "int", utf8 |-> FALSE],
       [name |-> "HttpStatusCode", tag |-> 1, optional |-> TRUE, kind |-> "int", utf8 |-> FALSE],
       [name |-> "WsaLastError", tag |-> 2, optional |-> TRUE, kind |-> "int", utf8 |-> FALSE],
       [name |-> "TlsAlertCode", tag |-> 3, optional |-> TRUE, kind |-> "uint8", utf8 |-> FALSE] >>

PduFields ==
    << [name |-> "Version", tag |-> 0, optional |-> FALSE, kind |-> "int", utf8 |-> FALSE],
       [name |-> "Error", tag |-> 1, optional |-> TRUE, kind |-> "Err", utf8 |-> FALSE],
       [name |-> "Destination", tag |-> 2, optional |-> TRUE, kind |-> "string", utf8 |-> FALSE],
       [name |-> "ProxyAuth", tag |-> 3, optional |-> TRUE, kind |-> "string", utf8 |-> FALSE],
       [name |-> "ServerAuth", tag |-> 4, optional |-> TRUE, kind |-> "string", utf8 |-> FALSE],
       [name |-> "PreconnectionBlob", tag |-> 5, optional |-> TRUE, kind |-> "string",
        utf8 |-> FALSE],
       [name |-> "X224ConnectionPdu", tag |-> 6, optional |-> TRUE, kind |-> "bytes",
        utf8 |-> FALSE],
       [name |-> "ServerCertChain", tag |-> 7, optional |-> TRUE, kind |-> "chain",
        utf8 |-> FALSE],
       [name |-> "ServerAddr", tag |-> 9, optional |-> TRUE, kind |-> "string", utf8 |-> TRUE] >>

\* the zero-value test of makeField for an optional member of the given kind
IsZeroValue(kind, v) ==
    CASE kind = "int" -> OmitInt(v)
      [] kind = "uint8" -> OmitInt(v)
      [] kind = "string" -> OmitString(v)
      [] kind = "bytes" -> OmitBytes(v)
      [] kind = "chain" -> OmitChain(v)
      [] OTHER -> OmitErr(v)

\* makeField for the int members of the Err struct: uint8 is no type
\* encoding/asn1 knows, so a TlsAlertCode that is not left out cannot be encoded
MakeErrMember(f, v) ==
    IF f.optional /\ IsZeroValue(f.kind, v) THEN Enc(<<>>)
    ELSE IF f.kind = "uint8" THEN EncErr("asn1: structure error: unknown Go type")
    ELSE Enc(Explicit(f.tag, MakeIntField(v)))

\* the first error among the encoded members, or their concatenation
RECURSIVE JoinParts(_)
JoinParts(parts) ==
    IF parts = <<>> THEN Enc(<<>>)
    ELSE IF Head(parts).err # "nil" THEN Head(parts)
    ELSE LET rest == JoinParts(Tail(parts)) IN
         IF rest.err # "nil" THEN rest ELSE Enc(Head(parts).der \o rest.der)

\* makeBody for a struct value: SEQUENCE of its members in declaration order
MarshalErrStruct(e) ==
    LET body == JoinParts([i \in 1..Len(ErrFields) |->
                              MakeErrMember(ErrFields[i], e[ErrFields[i].name])])
    IN  IF body.err # "nil" THEN body
        ELSE Enc(TLV(ClassUniversal, TRUE, TagSequence, body.der))

\* makeField for one member of the Pdu struct
MakePduMember(f, v) ==
    IF f.optional /\ IsZeroValue(f.kind, v) THEN Enc(<<>>)
    ELSE LET inner ==
                CASE f.kind = "int" -> Enc(MakeIntField(v))
                  [] f.kind = "string" -> MakeStringField(v, f.utf8)
                  [] f.kind = "bytes" -> Enc(MakeBytesField(v))
                  [] f.kind = "chain" ->
                        Enc(TLV(ClassUniversal, TRUE, TagSequence, MakeSequenceOf(v.certs)))
                  [] OTHER -> MarshalErrStruct(v)
         IN  IF inner.err # "nil" THEN inner ELSE Enc(Explicit(f.tag, inner.der))

\* pdu.Marshal(): asn1.Marshal(*pdu)
Marshal(pdu) ==
    LET body == JoinParts([i \in 1..Len(PduFields) |->
                              MakePduMember(PduFields[i], pdu[PduFields[i].name])])
    IN  IF body.err # "nil" THEN body
        ELSE Enc(TLV(ClassUniversal, TRUE, TagSequence, body.der))

-----------------------------------------------------------------------------
(* encoding/asn1 as Unmarshal uses it: DER decoding *)

TagErr(e) == [err |-> e, class |-> 0, compound |-> FALSE, tag |-> 0, length |-> 0, off |-> 0]

\* big-endian value of the length octets
RECURSIVE LengthValue(_)
LengthValue(bs) ==
    IF bs = <<>> THEN 0 ELSE LengthValue(SubSeq(bs, 1, Len(bs) - 1)) * 256 + bs[Len(bs)]

\* parseTagAndLength(bytes, initOffset); off counts the bytes before the position.
\* Tag numbers above 30 (base-128 form) occur in no buffer explored here and are
\* reported as an error.
ParseTagAndLength(bs, off) ==
    IF off >= Len(bs) THEN TagErr("asn1: internal error in parseTagAndLength")
    ELSE LET b == bs[off + 1] IN
         IF b % 32 = 31 THEN TagErr("asn1: structure error: base-128 tag")
         ELSE IF off + 1 >= Len(bs) THEN TagErr("asn1: syntax error: truncated tag or length")
         ELSE LET l == bs[off + 2]
                  n == l % 128
                  ok(length, o) == [err |-> "nil", class |-> b \div 64,
                                    compound |-> (b \div 32) % 2 = 1, tag |-> b % 32,
                                    length |-> length, off |-> o]
              IN  IF l < 128 THEN ok(l, off + 2)
                  ELSE IF n = 0
                       THEN TagErr("asn1: syntax error: indefinite length found (not DER)")
                  ELSE IF off + 2 + n > Len(bs)
                       THEN TagErr("asn1: syntax error: truncated tag or length")
                  ELSE IF bs[off + 3] = 0
                       THEN TagErr("asn1: structure error: superfluous leading zeros in length")
                  ELSE IF n > 4 \/ (n = 4 /\ bs[off + 3] >= 128)
                       THEN TagErr("asn1: structure error: length too large")
                  ELSE IF LengthValue(SubSeq(bs, off + 3, off + 2 + n)) < 128
                       THEN TagErr("asn1: structure error: non-minimal length")
                  ELSE ok(LengthValue(SubSeq(bs, off + 3, off + 2 + n)), off + 2 + n)

\* the element of a one-element set: Only({e(x) : x \in {v}}) is e(v) with v
\* evaluated once
Only(S) == CHOOSE x \in S : TRUE

Parsed(v, off) == [err |-> "nil", val |-> v, off |-> off]
ParseErr(e) == [err |-> e, val |-> 0, off |-> 0]

\* checkInteger, parseInt64
ParseInt64(bs) ==
    IF bs = <<>> THEN ParseErr("asn1: structure error: empty integer")
    ELSE IF Len(bs) > 1 /\ ((bs[1] = 0 /\ bs[2] < 128) \/ (bs[1] = 255 /\ bs[2] >= 128))
         THEN ParseErr("asn1: structure error: integer not minimally-encoded")
    ELSE IF Len(bs) > 8 THEN ParseErr("asn1: structure error: integer too large")
    ELSE Parsed(LengthValue(bs) - (IF bs[1] >= 128 THEN Pow256(Len(bs)) ELSE 0), 0)

\* parsePrintableString, parseIA5String, parseUTF8String
ParseString(tag, bs) ==
    IF tag = TagPrintableString
    THEN IF \A i \in 1..Len(bs) : IsPrintable(bs[i], TRUE, TRUE)
         THEN Parsed(bs, 0)
         ELSE ParseErr("asn1: syntax error: PrintableString contains invalid character")
    ELSE IF tag = TagIA5String
    THEN IF \A i \in 1..Len(bs) : bs[i] < 128
         THEN Parsed(bs, 0)
         ELSE ParseErr("asn1: syntax error: IA5String contains invalid character")
    ELSE IF ValidUTF8(bs) THEN Parsed(bs, 0)
         ELSE ParseErr("asn1: invalid UTF-8 string")

\* parseSequenceOf for [][]byte: every element must be a primitive universal
\* OCTET STRING that fits; the elements come out in wire order, each a non-nil slice
RECURSIVE ParseSequenceOf(_, _, _)
ParseSequenceOf(bs, off, acc) ==
    IF off >= Len(bs) THEN Parsed(Chain(acc), off)
    ELSE Only({IF t.err # "nil" THEN ParseErr(t.err)
               ELSE IF t.class # ClassUniversal \/ t.compound \/ t.tag # TagOctetString
                    THEN ParseErr("asn1: structure error: sequence tag mismatch")
               ELSE IF t.off + t.length > Len(bs)
                    THEN ParseErr("asn1: syntax error: truncated sequence")
               ELSE ParseSequenceOf(bs, t.off + t.length,
                                    Append(acc, Bytes(SubSeq(bs, t.off + 1, t.off + t.length))))
               : t \in {ParseTagAndLength(bs, off)}})

\* the string types a string member accepts on the wire; the buffers explored
\* here carry PrintableString, IA5String and UTF8String
WireStringTags == {TagPrintableString, TagIA5String, TagUTF8String}

\* getUniversalType: the universal tag and the compound bit expected for a Go kind
UniversalTag(kind, t) ==
    CASE kind = "int" -> TagInteger
      [] kind = "bytes" -> TagOctetString
      [] kind = "string" ->
            IF t.class = ClassUniversal /\ t.tag \in WireStringTags
            THEN t.tag ELSE TagPrintableString
      [] OTHER -> TagSequence
CompoundType(kind) == kind \in {"chain", "Err"}

\* setDefaultValue: a member that is left out keeps the zero value of its type
DefaultOrErr(f, zero, initOff, e) ==
    IF f.optional THEN Parsed(zero, initOff) ELSE ParseErr(e)

\* the members of the Err struct, in order, from the contents bs of its SEQUENCE
RECURSIVE ParseErrFields(_, _, _, _)
\* parseField for one struct member f (explicitly tagged) at offset initOff
RECURSIVE ParseField(_, _, _, _)

ParseErrFields(bs, off, i, acc) ==
    IF i > Len(ErrFields) THEN Parsed(acc, off)
    ELSE Only({IF r.err # "nil" THEN r
               ELSE ParseErrFields(bs, r.off, i + 1,
                                   [acc EXCEPT ![ErrFields[i].name] = r.val])
               : r \in {ParseField(bs, off, ErrFields[i], ZeroErr[ErrFields[i].name])}})

ParseField(bs, initOff, f, zero) ==
    IF initOff = Len(bs)
    THEN DefaultOrErr(f, zero, initOff, "asn1: syntax error: sequence truncated")
    ELSE LET w == ParseTagAndLength(bs, initOff) IN
    IF w.err # "nil" THEN ParseErr(w.err)
    ELSE IF w.off = Len(bs) THEN ParseErr("asn1: structure error: explicit tag has no child")
    ELSE IF ~(w.class = ClassContextSpecific /\ w.tag = f.tag /\ (w.length = 0 \/ w.compound))
         THEN DefaultOrErr(f, zero, initOff,
                           "asn1: structure error: explicitly tagged member didn't match")
    ELSE IF w.length = 0
         THEN ParseErr("asn1: structure error: zero length explicit tag was not an asn1.Flag")
    ELSE LET t == ParseTagAndLength(bs, w.off) IN
    IF t.err # "nil" THEN ParseErr(t.err)
    ELSE IF f.kind = "uint8" THEN ParseErr("asn1: structure error: unknown Go type")
    ELSE IF \/ t.class # ClassUniversal
            \/ t.tag # UniversalTag(f.kind, t)
            \/ t.compound # CompoundType(f.kind)
         THEN DefaultOrErr(f, zero, initOff, "asn1: structure error: tags don't match")
    ELSE IF t.off + t.length > Len(bs) THEN ParseErr("asn1: syntax error: data truncated")
    ELSE LET innerBytes == SubSeq(bs, t.off + 1, t.off + t.length)
             offset == t.off + t.length
             v == CASE f.kind = "int" -> ParseInt64(innerBytes)
                    [] f.kind = "string" -> ParseString(t.tag, innerBytes)
                    [] f.kind = "bytes" -> Parsed(Bytes(innerBytes), 0)
                    [] f.kind = "chain" -> ParseSequenceOf(innerBytes, 0, <<>>)
                    [] OTHER -> ParseErrFields(innerBytes, 0, 1, ZeroErr)
         IN  IF v.err # "nil" THEN v ELSE Parsed(v.val, offset)

\* the members of the Pdu struct, in order; bytes left over inside the SEQUENCE
\* are allowed
RECURSIVE ParsePduFields(_, _, _, _)
ParsePduFields(bs, off, i, acc) ==
    IF i > Len(PduFields) THEN Parsed(acc, off)
    ELSE Only({IF r.err # "nil" THEN r
               ELSE ParsePduFields(bs, r.off, i + 1,
                                   [acc EXCEPT ![PduFields[i].name] = r.val])
               : r \in {ParseField(bs, off, PduFields[i], ZeroPdu[PduFields[i].name])}})

\* asn1.Unmarshal(src, pdu): parseField on the Pdu struct at offset 0; val is the
\* decoded struct and off the number of bytes used, rest = src[off:]
Asn1Unmarshal(src) ==
    IF Len(src) = 0 THEN ParseErr("asn1: syntax error: sequence truncated")
    ELSE LET t == ParseTagAndLength(src, 0) IN
         IF t.err # "nil" THEN ParseErr(t.err)
         ELSE IF t.class # ClassUniversal \/ t.tag # TagSequence \/ ~t.compound
              THEN ParseErr("asn1: structure error: tags don't match")
         ELSE IF t.off + t.length > Len(src)
              THEN ParseErr("asn1: syntax error: data truncated")
         ELSE LET r == ParsePduFields(SubSeq(src, t.off + 1, t.off + t.length), 0, 1, ZeroPdu)
              IN  IF r.err # "nil" THEN r ELSE Parsed(r.val, t.off + t.length)

\* len(rest) > 0 is the trailing-data error
TrailingCheck_Ignore(src, off) == "nil"
TrailingCheck(src, off) == IF Len(src) - off > 0 THEN "trailing data after PDU" ELSE "nil"

\* rdcleanpath.Unmarshal(src): [err, pdu]; pdu is ZeroPdu standing for nil on error
Unmarshal(src) ==
    LET r == Asn1Unmarshal(src) IN
    IF r.err # "nil" THEN [err |-> r.err, isNil |-> TRUE, pdu |-> ZeroPdu]
    ELSE IF TrailingCheck(src, r.off) # "nil"
         THEN [err |-> TrailingCheck(src, r.off), isNil |-> TRUE, pdu |-> ZeroPdu]
    ELSE [err |-> "nil", isNil |-> FALSE, pdu |-> r.val]

-----------------------------------------------------------------------------
(* The codec exchange: NewResp or a caller builds a Pdu, Marshal encodes it, the
   bytes reach Unmarshal as they are, cut short or followed by more bytes; or a
   peer's encoded request reaches Unmarshal *)

\* longest certificate chain handed to NewResp
MaxChain == 2
\* most bytes that follow the structure in a buffer handed to Unmarshal
MaxTrail == 2

\* "", "1:3", "[::1]:3": what net.Addr.String() gives
ServerAddrs == {<<>>, <<49, 58, 51>>, <<91, 58, 58, 49, 93, 58, 51>>}

\* nil, empty, and frames as ReadFrame returns them
X224Pdus ==
    {NilBytes, Bytes(<<>>), Bytes(<<3, 0, 0, 4>>),
     Bytes(<<3, 0, 0, 11, 6, 208, 0, 0, 18, 52, 0>>)}

\* certificate bytes: two short ones and two of 130 and 140 bytes
Certs == {<<48, 0>>, <<48, 3, 2, 1, 5>>, <<48, 129, 127>> \o Pad(127),
          <<48, 129, 137>> \o Pad(137)}

RECURSIVE ChainsOfLen(_)
ChainsOfLen(n) ==
    IF n = 0 THEN {<<>>}
    ELSE {<<Bytes(c)>> \o rest : c \in Certs, rest \in ChainsOfLen(n - 1)}

CertChains ==
    {NilChain} \cup {Chain(cs) : cs \in UNION {ChainsOfLen(n) : n \in 0..MaxChain}}

\* Pdu values a caller can build directly
LiteralErrs ==
    {ZeroErr, [ZeroErr EXCEPT !.ErrorCode = 1],
     [ZeroErr EXCEPT !.HttpStatusCode = 404, !.WsaLastError = -1],
     [ZeroErr EXCEPT !.ErrorCode = 1, !.TlsAlertCode = 40]}
LiteralPdus ==
    {[Version |-> ProtocolVersion, Error |-> e, Destination |-> d, ProxyAuth |-> pa,
      ServerAuth |-> <<>>, PreconnectionBlob |-> blob, X224ConnectionPdu |-> x,
      ServerCertChain |-> ch, ServerAddr |-> a] :
        e \in LiteralErrs,
        d \in {<<>>, <<97, 58, 49>>, <<97, 64>>, <<255>>},
        pa \in {<<>>, <<112>>},
        blob \in {<<>>, <<98>>},
        x \in {NilBytes, Bytes(<<>>), Bytes(<<3, 0, 0, 4>>)},
        ch \in {NilChain, Chain(<<>>), Chain(<<Bytes(<<48, 0>>)>>)},
        a \in {<<>>, <<49, 58, 51>>}}

\* a member of a peer's message: left out, or present with a value
Absent == [present |-> FALSE, v |-> <<>>]
Present(v) == [present |-> TRUE, v |-> v]

\* the optional members a peer's message may carry (Version is always sent)
PeerMembers ==
    {"Destination", "ProxyAuth", "PreconnectionBlob", "X224ConnectionPdu",
     "ServerCertChain", "ServerAddr"}

PeerMessages ==
    {[Destination |-> d, ProxyAuth |-> pa, PreconnectionBlob |-> blob,
      X224ConnectionPdu |-> x, ServerCertChain |-> ch, ServerAddr |-> a] :
        d \in {Absent, Present(<<>>), Present(<<97, 58, 49>>)},
        pa \in {Absent, Present(<<>>)},
        blob \in {Absent, Present(<<>>), Present(<<98>>)},
        x \in {Absent, Present(<<>>), Present(<<3, 0, 0, 4>>)},
        ch \in {Absent, Present(<<>>), Present(<<Bytes(<<48, 0>>)>>)},
        a \in {Absent, Present(<<>>)}}

NoPeerMessage ==
    [Destination |-> Absent, ProxyAuth |-> Absent, PreconnectionBlob |-> Absent,
     X224ConnectionPdu |-> Absent, ServerCertChain |-> Absent, ServerAddr |-> Absent]

\* the DER bytes a peer sends for a message: a member that is present is encoded,
\* empty or not (strings as UTF8String); a member that is absent is not
PeerField(m, tag, inner) == IF m.present THEN Explicit(tag, inner) ELSE <<>>
PeerEncode(m) ==
    TLV(ClassUniversal, TRUE, TagSequence,
        Explicit(0, MakeIntField(ProtocolVersion))
        \o PeerField(m.Destination, 2, TLV(ClassUniversal, FALSE, TagUTF8String, m.Destination.v))
        \o PeerField(m.ProxyAuth, 3, TLV(ClassUniversal, FALSE, TagUTF8String, m.ProxyAuth.v))
        \o PeerField(m.PreconnectionBlob, 5,
                     TLV(ClassUniversal, FALSE, TagUTF8String, m.PreconnectionBlob.v))
        \o PeerField(m.X224ConnectionPdu, 6,
                     TLV(ClassUniversal, FALSE, TagOctetString, m.X224ConnectionPdu.v))
        \o PeerField(m.ServerCertChain, 7,
                     TLV(ClassUniversal, TRUE, TagSequence, MakeSequenceOf(m.ServerCertChain.v)))
        \o PeerField(m.ServerAddr, 9, TLV(ClassUniversal, FALSE, TagUTF8String, m.ServerAddr.v)))

\* bytes that follow a structure in a buffer
Trails == SeqsUpTo({0, 48}, MaxTrail)

NoArgs == [serverAddr |-> <<>>, x224Pdu |-> NilBytes, x509Chain |-> NilChain]
NoResult == [err |-> "nil", isNil |-> TRUE, pdu |-> ZeroPdu]

CodecIdle ==
    /\ cpc = "start"
    /\ origin = "none"
    /\ args = NoArgs
    /\ cleanPathResp = ZeroPdu
    /\ peer = NoPeerMessage
    /\ cleanPathRespDer = Enc(<<>>)
    /\ sent = <<>>
    /\ frame = <<>>
    /\ decoded = NoResult

FrameIdle ==
    /\ stream = <<>>
    /\ endKind = "EOF"
    /\ pos = 0
    /\ start = 0
    /\ pc = "idle"
    /\ headerBuf = <<>>
    /\ pduLength = -1
    /\ retFrame = <<>>
    /\ retAction = "ActionUnknown"
    /\ retErr = "nil"

\* the two streams of a session
Conns == {"client", "server"}
\* the goroutines Handle starts
Tasks == {"c2s", "s2c", "watcher"}

\* Handle was not called
HandleIdle ==
    /\ hpc = "NotCalled"
    /\ completed = <<>>
    /\ handleErr = "running"
    /\ serverConn = "nil"
    /\ serverLog = <<>>
    /\ serverGot = <<>>
    /\ clientGot = <<>>
    /\ x224Resp = <<>>
    /\ peerCertificates = <<>>
    /\ certChain = NilChain
    /\ task = [t \in Tasks |-> "idle"]
    /\ closed = [c \in Conns |-> FALSE]
    /\ pending = [c \in Conns |-> 0]
    /\ delivered = [c \in Conns |-> 0]
    /\ peerState = [c \in Conns |-> "open"]
    /\ copied = [c \in Conns |-> 0]
    /\ ctxDone = FALSE
    /\ cancelAt = "never"
    /\ groupCtxDone = FALSE
    /\ groupErr = "nil"
    /\ lateWrites = {}

\* cleanPathResp, err := rdcleanpath.NewResp(serverAddr, x224Resp, certChain)
CallNewResp ==
    /\ cpc = "start"
    /\ \E a \in ServerAddrs, x \in X224Pdus, ch \in CertChains :
          /\ args' = [serverAddr |-> a, x224Pdu |-> x, x509Chain |-> ch]
          /\ cleanPathResp' = NewResp(a, x, ch)
    /\ origin' = "NewResp"
    /\ cpc' = "built"
    /\ UNCHANGED <<peer, cleanPathRespDer, sent, frame, decoded, notCodecVars>>

\* a caller fills in a Pdu itself
BuildPdu ==
    /\ cpc = "start"
    /\ cleanPathResp' \in LiteralPdus
    /\ origin' = "literal"
    /\ cpc' = "built"
    /\ UNCHANGED <<args, peer, cleanPathRespDer, sent, frame, decoded, notCodecVars>>

\* cleanPathRespDer, err := cleanPathResp.Marshal()
CallMarshal ==
    /\ cpc = "built"
    /\ cleanPathRespDer' = Marshal(cleanPathResp)
    /\ cpc' = "marshalled"
    /\ UNCHANGED <<origin, args, cleanPathResp, peer, sent, frame, decoded, notCodecVars>>

\* the encoded structure arrives at a decoder, alone or followed by more bytes
Deliver ==
    /\ cpc = "marshalled"
    /\ cleanPathRespDer.err = "nil"
    /\ sent' = cleanPathRespDer.der
    /\ \E t \in Trails : frame' = cleanPathRespDer.der \o t
    /\ cpc' = "received"
    /\ UNCHANGED <<origin, args, cleanPathResp, peer, cleanPathRespDer, decoded,
                   notCodecVars>>

\* the encoded structure arrives with its last byte missing
DeliverCut ==
    /\ cpc = "marshalled"
    /\ cleanPathRespDer.err = "nil"
    /\ sent' = cleanPathRespDer.der
    /\ frame' = SubSeq(cleanPathRespDer.der, 1, Len(cleanPathRespDer.der) - 1)
    /\ cpc' = "received"
    /\ UNCHANGED <<origin, args, cleanPathResp, peer, cleanPathRespDer, decoded,
                   notCodecVars>>

\* a peer encodes a message and it arrives as it was sent
PeerSend ==
    /\ cpc = "start"
    /\ peer' \in PeerMessages
    /\ sent' = PeerEncode(peer')
    /\ frame' = PeerEncode(peer')
    /\ origin' = "peer"
    /\ cpc' = "received"
    /\ UNCHANGED <<args, cleanPathResp, cleanPathRespDer, decoded, notCodecVars>>

\* cleanPathResp, err := rdcleanpath.Unmarshal(frame)
CallUnmarshal ==
    /\ cpc = "received"
    /\ decoded' = Unmarshal(frame)
    /\ cpc' = "decoded"
    /\ UNCHANGED <<origin, args, cleanPathResp, peer, cleanPathRespDer, sent, frame,
                   notCodecVars>>

InitCodec == CodecIdle /\ FrameIdle /\ HandleIdle

NextCodec ==
    \/ CallNewResp
    \/ BuildPdu
    \/ CallMarshal
    \/ Deliver
    \/ DeliverCut
    \/ PeerSend
    \/ CallUnmarshal

SpecCodec == InitCodec /\ [][NextCodec]_vars

-----------------------------------------------------------------------------
(* ReadFrame on a stream *)

InitFrame ==
    /\ stream \in Streams
    /\ endKind \in {"EOF", "fault"}
    /\ pos = 0
    /\ start = 0
    /\ pc = "idle"
    /\ headerBuf = <<>>
    /\ pduLength = -1
    /\ retFrame = <<>>
    /\ retAction = "ActionUnknown"
    /\ retErr = "nil"
    /\ CodecIdle
    /\ HandleIdle

NextFrame ==
    \/ CallReadFrame
    \/ ReadProbe
    \/ ReadFastPathExt
    \/ ReadLengthExt
    \/ ReadFastPathPayload
    \/ ReadTpktExt
    \/ ReadTpktPayload

SpecFrame == InitFrame /\ [][NextFrame]_vars

-----------------------------------------------------------------------------
(* Properties of ReadFrame, checked under SpecFrame *)

Returned == pc = "done"
Avail == Len(stream) - start
Consumed == pos - start
ByteAt(i) == stream[start + i]

\* number of bytes the frame at the reader's position occupies, from the wire
\* format alone; 0 where the header is malformed
WireFrameLen ==
    IF Avail = 0 THEN 0
    ELSE IF ByteAt(1) % 4 = 0
         THEN IF Avail < 2 THEN 2
              ELSE IF ByteAt(2) < 128 THEN 2 + ByteAt(2)
              ELSE IF Avail < 3 THEN 3
              ELSE 3 + ((ByteAt(2) % 128) * 256 + ByteAt(3))
    ELSE IF ByteAt(1) = 3
         THEN IF Avail < 4 THEN 4
              ELSE IF ByteAt(3) * 256 + ByteAt(4) < 4 THEN 0
              ELSE ByteAt(3) * 256 + ByteAt(4)
    ELSE 0

FrameOk(n, action) ==
    /\ retErr = "nil"
    /\ Consumed = n
    /\ retFrame = SubSeq(stream, start + 1, start + n)
    /\ retAction = action

\* C1: for a stream whose first byte has low bits 00, ReadFrame consumes exactly
\* 2+b bytes when the second byte b has its high bit clear and exactly
\* 3+(((b & 0x7F) << 8) | third byte) bytes when it is set; the returned buffer is
\* the consumed prefix, the variant is FastPath, and length 0 is accepted.
C1_FastPathConsumesHeaderPlusLength ==
    (Returned /\ Avail >= 2 /\ ByteAt(1) % 4 = 0) =>
        /\ (ByteAt(2) < 128 /\ Avail >= 2 + ByteAt(2)) =>
               FrameOk(2 + ByteAt(2), "ActionFastPath") /\ pduLength = ByteAt(2)
        /\ (ByteAt(2) >= 128 /\ Avail >= 3
              /\ Avail >= 3 + ((ByteAt(2) % 128) * 256 + ByteAt(3))) =>
               /\ FrameOk(3 + ((ByteAt(2) % 128) * 256 + ByteAt(3)), "ActionFastPath")
               /\ pduLength = (ByteAt(2) % 128) * 256 + ByteAt(3)
        /\ retErr = "nil" =>
               /\ retAction = "ActionFastPath"
               /\ Consumed = Len(retFrame)
               /\ Consumed = IF ByteAt(2) < 128 THEN 2 + ByteAt(2)
                             ELSE 3 + ((ByteAt(2) % 128) * 256 + ByteAt(3))

\* a FastPath frame with a 15-bit length above 255 was returned, with bytes left over
C1_Witness ==
    /\ Returned /\ retErr = "nil" /\ retAction = "ActionFastPath"
    /\ Len(headerBuf) = 3 /\ headerBuf[2] = 129 /\ Consumed = 3 + 256 + 2

\* a FastPath frame of declared length 0 was returned: only the 2-byte header
C1_WitnessZero ==
    /\ Returned /\ retErr = "nil" /\ retAction = "ActionFastPath" /\ Consumed = 2

\* C2: for a stream that starts with a valid TPKT header (byte 0 = 3, big-endian
\* total length T >= 4 in bytes 2-3) followed by at least T-4 bytes, ReadFrame
\* consumes exactly T bytes, returns them as the X224 frame with a payload of T-4
\* bytes, and leaves the bytes after the frame unread.
C2_LengthPrefixedConsumesTotal ==
    (Returned /\ Avail >= 4 /\ ByteAt(1) = 3
       /\ ByteAt(3) * 256 + ByteAt(4) >= 4
       /\ Avail >= ByteAt(3) * 256 + ByteAt(4)) =>
        /\ FrameOk(ByteAt(3) * 256 + ByteAt(4), "ActionX224")
        /\ Len(retFrame) - Len(headerBuf) = ByteAt(3) * 256 + ByteAt(4) - 4
        /\ Len(headerBuf) = 4
        /\ pos = start + ByteAt(3) * 256 + ByteAt(4)

\* an X224 frame with a payload was returned and bytes after it are still unread
C2_Witness ==
    /\ Returned /\ retErr = "nil" /\ retAction = "ActionX224"
    /\ Len(retFrame) > 4 /\ pos < Len(stream)
    /\ headerBuf[3] # headerBuf[4]

\* the stream ended inside the frame at the reader's position
Truncated == Avail >= 1 /\ WireFrameLen > 0 /\ Avail < WireFrameLen

\* C3: if the stream ends after at least one byte of the frame was consumed but
\* before header and declared payload are complete, ReadFrame returns
\* unexpected-end-of-stream and no frame; a returned frame is never shorter than
\* its header declares.
C3_TruncatedIsUnexpectedEOF ==
    Returned =>
        /\ (endKind = "EOF" /\ Truncated) =>
               retErr = "ErrUnexpectedEOF" /\ retFrame = <<>> /\ retAction = "ActionUnknown"
        /\ retErr = "nil" => ~Truncated /\ Len(retFrame) = WireFrameLen

\* the stream ended right after the first byte: the header extension read saw a bare EOF
C3_Witness ==
    /\ Returned /\ endKind = "EOF" /\ Truncated /\ Consumed = 1
    /\ retErr = "ErrUnexpectedEOF"

\* the stream ended inside the payload
C3_WitnessPayload ==
    /\ Returned /\ endKind = "EOF" /\ Truncated /\ Consumed > Len(headerBuf)
    /\ Len(headerBuf) >= 2 /\ retErr = "ErrUnexpectedEOF"

\* C4 as stated: unexpected-end-of-stream is reported only when part of a frame
\* has been consumed; a clean end of stream with zero bytes pending is reported
\* as a different condition.
C4_CleanEOFIsDistinct ==
    (Returned /\ retErr = "ErrUnexpectedEOF") => Consumed >= 1

\* C4 as amended: a stream that ends with zero bytes of a frame consumed is
\* reported as unexpected-end-of-stream too, the same condition as an end inside
\* a frame; ReadFrame never returns a plain end-of-stream.
C4_CleanEOFIsUnexpectedEOF ==
    Returned =>
        /\ (endKind = "EOF" /\ Avail = 0) =>
               retErr = "ErrUnexpectedEOF" /\ Consumed = 0 /\ retFrame = <<>>
        /\ retErr # "EOF"

\* a frame was read before, and the stream ended exactly at the frame boundary
C4_Witness ==
    /\ Returned /\ endKind = "EOF" /\ start > 0 /\ Avail = 0
    /\ retErr = "ErrUnexpectedEOF"

\* C5: ReadFrame fails without a frame for every malformed header: low bits 01 or
\* 10 (invalid action), low bits 11 with a first byte other than 3 (wrong
\* version, reported once the 4 header bytes are read), TPKT total length below 4
\* (invalid length); every other header on a long enough stream succeeds.
C5_MalformedHeaderFails ==
    (Returned /\ Avail >= 1) =>
        /\ ByteAt(1) % 4 \in {1, 2} =>
               retErr = "ErrInvalidAction" /\ retFrame = <<>> /\ retAction = "ActionUnknown"
        /\ (ByteAt(1) % 4 = 3 /\ ByteAt(1) # 3) =>
               /\ retErr # "nil" /\ retFrame = <<>> /\ retAction = "ActionUnknown"
               /\ Avail >= 4 => retErr = "ErrTpktVersion"
        /\ (ByteAt(1) = 3 /\ Avail >= 4 /\ ByteAt(3) * 256 + ByteAt(4) < 4) =>
               retErr = "ErrInvalidLength" /\ retFrame = <<>> /\ retAction = "ActionUnknown"
        /\ (WireFrameLen > 0 /\ Avail >= WireFrameLen) => retErr = "nil"

\* a TPKT header with total length below 4 was rejected
C5_Witness ==
    /\ Returned /\ retErr = "ErrInvalidLength" /\ Consumed = 4

\* a first byte with low bits 11 that is not 3 was rejected after the 4 header bytes
C5_WitnessVersion ==
    /\ Returned /\ retErr = "ErrTpktVersion" /\ Consumed = 4

-----------------------------------------------------------------------------
(* Properties of the codec, checked under SpecCodec *)

Decoded == cpc = "decoded"
TrailingData == "trailing data after PDU"

\* the context tag numbers of the members that appear in an encoded structure
RECURSIVE MemberTags(_, _)
MemberTags(bs, off) ==
    IF off >= Len(bs) THEN {}
    ELSE Only({{t.tag} \cup MemberTags(bs, t.off + t.length)
               : t \in {ParseTagAndLength(bs, off)}})
WireTags(encoded) ==
    Only({MemberTags(SubSeq(encoded, 1, t.off + t.length), t.off)
          : t \in {ParseTagAndLength(encoded, 0)}})

NonEmptyChain(ch) == ~ch.nil /\ ch.certs # <<>>

C8_TrailingDataRejected ==
    Decoded =>
        /\ Len(frame) > Len(sent) => decoded.err = TrailingData /\ decoded.isNil
        /\ decoded.err = "nil" => frame = sent /\ ~decoded.isNil

\* a response followed by two extra bytes was rejected
C8_Witness ==
    /\ Decoded /\ origin = "NewResp" /\ NonEmptyChain(args.x509Chain)
    /\ Len(frame) = Len(sent) + 2 /\ SubSeq(frame, 1, Len(sent)) = sent
    /\ decoded.err = TrailingData

\* the Go value a present member of a peer's message decodes to
GoValue(m, v) ==
    CASE m = "X224ConnectionPdu" -> Bytes(v)
      [] m = "ServerCertChain" -> Chain(v)
      [] OTHER -> v

ByteMembers == {"X224ConnectionPdu", "ServerCertChain"}

\* C9 as stated: every optional member decodes back to what was sent, absent as
\* absent and present (also with an empty value) as present, so that a present
\* empty value is distinguishable from absent.
C9_AbsentDistinctFromEmpty ==
    (Decoded /\ origin = "peer") =>
        /\ decoded.err = "nil"
        /\ \A m \in PeerMembers : peer[m].present <=> decoded.pdu[m] # ZeroPdu[m]

\* C9, what the code does instead: an absent optional member does not appear in
\* the encoded form and decodes to the member's zero value; a present member
\* decodes to its value; for the byte-sequence members (X224ConnectionPdu, ServerCertChain) a
\* present empty value is encoded and decodes to a non-nil empty slice, distinct
\* from absent; for the string members the empty value is the absent value: it
\* is not encoded, and an encoded empty string decodes to the same value as an
\* absent member.
C9_OptionalMembers ==
    /\ (Decoded /\ origin = "peer") =>
           /\ decoded.err = "nil"
           /\ \A m \in PeerMembers :
                 /\ ~peer[m].present => decoded.pdu[m] = ZeroPdu[m]
                 /\ peer[m].present => decoded.pdu[m] = GoValue(m, peer[m].v)
                 /\ (peer[m].present /\ m \in ByteMembers) => decoded.pdu[m] # ZeroPdu[m]
                 /\ (peer[m].present /\ peer[m].v = <<>> /\ m \notin ByteMembers) =>
                        decoded.pdu[m] = ZeroPdu[m]
    /\ (cpc = "marshalled" /\ cleanPathRespDer.err = "nil") =>
           WireTags(cleanPathRespDer.der) =
               {PduFields[i].tag : i \in {j \in 1..Len(PduFields) :
                    \/ ~PduFields[j].optional
                    \/ cleanPathResp[PduFields[j].name] # ZeroPdu[PduFields[j].name]}}
    /\ (Decoded /\ origin \in {"NewResp", "literal"} /\ frame = sent) =>
           decoded.err = "nil" /\ decoded.pdu = cleanPathResp

\* a peer's message with an empty connection PDU and an empty destination, both
\* present, was decoded: the PDU as a non-nil empty slice, the destination as ""
C9_Witness ==
    /\ Decoded /\ origin = "peer" /\ decoded.err = "nil"
    /\ peer.X224ConnectionPdu = Present(<<>>) /\ decoded.pdu.X224ConnectionPdu = Bytes(<<>>)
    /\ peer.Destination = Present(<<>>) /\ decoded.pdu.Destination = <<>>
    /\ ~peer.ServerAddr.present

\* a Pdu built by a caller with an empty, non-nil connection PDU made the round trip
C9_WitnessMarshal ==
    /\ Decoded /\ origin = "literal" /\ frame = sent
    /\ cleanPathResp.X224ConnectionPdu = Bytes(<<>>)
    /\ decoded.pdu.X224ConnectionPdu = Bytes(<<>>)
    /\ cleanPathResp.ServerCertChain = NilChain

\* C10 as stated: the response NewResp constructs has version 3390, the
\* connection PDU and certificate chain passed in, and every other member
\* (error, destination, proxy-auth, server-auth, preconnection-blob,
\* server-address) absent.
C10_OnlyPduAndChainSet ==
    (origin = "NewResp" /\ cpc # "start") =>
        /\ cleanPathResp.Version = 3390
        /\ cleanPathResp.X224ConnectionPdu = args.x224Pdu
        /\ cleanPathResp.ServerCertChain = args.x509Chain
        /\ cleanPathResp.Error = ZeroErr
        /\ cleanPathResp.Destination = <<>>
        /\ cleanPathResp.ProxyAuth = <<>>
        /\ cleanPathResp.ServerAuth = <<>>
        /\ cleanPathResp.PreconnectionBlob = <<>>
        /\ cleanPathResp.ServerAddr = <<>>

\* C10 as amended: the response NewResp constructs has version 3390, the
\* connection PDU, the certificate chain and the server address passed in, and
\* leaves error, destination, proxy-auth, server-auth and preconnection-blob
\* absent.
C10_NewRespMembers ==
    (origin = "NewResp" /\ cpc # "start") =>
        /\ cleanPathResp.Version = 3390
        /\ cleanPathResp.X224ConnectionPdu = args.x224Pdu
        /\ cleanPathResp.ServerCertChain = args.x509Chain
        /\ cleanPathResp.ServerAddr = args.serverAddr
        /\ cleanPathResp.Error = ZeroErr
        /\ cleanPathResp.Destination = <<>>
        /\ cleanPathResp.ProxyAuth = <<>>
        /\ cleanPathResp.ServerAuth = <<>>
        /\ cleanPathResp.PreconnectionBlob = <<>>
        /\ cpc \in {"marshalled", "received", "decoded"} =>
               /\ cleanPathRespDer.err = "nil"
               /\ WireTags(cleanPathRespDer.der) \subseteq {0, 6, 7, 9}
               /\ (9 \in WireTags(cleanPathRespDer.der)) <=> (args.serverAddr # <<>>)

\* NewResp was called with a server address, a connection PDU and a chain
C10_Witness ==
    /\ origin = "NewResp" /\ cpc = "built"
    /\ args.serverAddr # <<>> /\ cleanPathResp.ServerAddr = args.serverAddr
    /\ NonEmptyChain(args.x509Chain) /\ ~args.x224Pdu.nil

-----------------------------------------------------------------------------
(* package proxy: Handle, called by main's /ws handler.  The client's request
   is on the client stream when Handle starts; the backend's answers, the
   outcome of every call that can fail, the peers' traffic during the relay
   and the cancellation of ctx are chosen by the environment. *)

\* most chunks each peer sends during the relay
MaxChunks == 1

\* lengths of the X224 connection PDU the client puts in its request: with the
\* destination "a:1" they give the structure a body of under 128 bytes (4), of
\* 128..255 bytes (130), of 256 bytes and more (300, 600)
RequestPduLens == {4, 130, 300, 600}

\* the requests a client sends
HandleRequests ==
    {[NoPeerMessage EXCEPT !.Destination = d, !.PreconnectionBlob = blob,
                           !.X224ConnectionPdu = Present(Pad(n))] :
        d \in {Present(<<97, 58, 49>>)},
        blob \in {Absent, Present(<<98>>)},
        n \in RequestPduLens}
    \cup {[NoPeerMessage EXCEPT !.X224ConnectionPdu = Present(Pad(4))]}

\* what the backend sends after the connection PDU: a connection confirm, a
\* connection confirm cut short, nothing
BackendReplies ==
    {<<3, 0, 0, 11, 6, 208, 0, 0, 18, 52, 0>>, <<3, 0, 0, 11, 6, 208>>, <<>>}

\* tlsConn.ConnectionState().PeerCertificates, each certificate by its Raw bytes
PeerCertChains ==
    {<<>>, <<<<48, 0>>>>, <<<<48, 3, 2, 1, 5>>, <<48, 0>>>>}

\* rdpServerConn.RemoteAddr().String()
RemoteAddrs == {<<49, 58, 51>>}

\* the statements of Handle, in the order they are written
HandshakeOrder ==
    <<"AwaitClientRequest", "DialBackend", "ForwardConnectionPdu", "AwaitBackendReply",
      "TLSUpgrade", "CollectCertChain", "SendClientResponse">>

\* a step that succeeded misses the next statement and goes back
StepAfter_Back(step) ==
    CASE step = "AwaitClientRequest" -> "DialBackend"
      [] step = "DialBackend" -> "ForwardConnectionPdu"
      [] step = "ForwardConnectionPdu" -> "AwaitBackendReply"
      [] step = "AwaitBackendReply" -> "TLSUpgrade"
      [] step = "TLSUpgrade" -> "ForwardConnectionPdu"
      [] step = "CollectCertChain" -> "SendClientResponse"
      [] step = "SendClientResponse" -> "Relay"
\* the statement Handle goes on with when a step succeeded
StepAfter(step) ==
    CASE step = "AwaitClientRequest" -> "DialBackend"
      [] step = "DialBackend" -> "ForwardConnectionPdu"
      [] step = "ForwardConnectionPdu" -> "AwaitBackendReply"
      [] step = "AwaitBackendReply" -> "TLSUpgrade"
      [] step = "TLSUpgrade" -> "CollectCertChain"
      [] step = "CollectCertChain" -> "SendClientResponse"
      [] step = "SendClientResponse" -> "Relay"

\* the step succeeded: Handle goes on
Proceed(step) ==
    /\ hpc' = StepAfter(step)
    /\ completed' = Append(completed, step)
    /\ handleErr' = handleErr

\* return fmt.Errorf(...)
Return(e) ==
    /\ hpc' = "Returned"
    /\ completed' = completed
    /\ handleErr' = e

\* append([]byte(cleanPathReq.PreconnectionBlob), cleanPathReq.X224ConnectionPdu...)
ForwardPayload_Swapped(req) == req.X224ConnectionPdu.b \o req.PreconnectionBlob
ForwardPayload(req) == req.PreconnectionBlob \o req.X224ConnectionPdu.b

\* if len(peerCertificates) == 0 { return ... }
CertsOk_Any(n) == TRUE
CertsOk(n) == n # 0

\* for _, cert := range peerCertificates { certChain = append(certChain, cert.Raw) }
RECURSIVE CollectRaw_Reversed(_, _)
CollectRaw_Reversed(chain, certs) ==
    IF certs = <<>> THEN chain
    ELSE CollectRaw_Reversed(Chain(<<Bytes(Head(certs))>> \o chain.certs), Tail(certs))
RECURSIVE CollectRaw(_, _)
CollectRaw(chain, certs) ==
    IF certs = <<>> THEN chain
    ELSE CollectRaw(Chain(Append(chain.certs, Bytes(Head(certs)))), Tail(certs))

\* frame, _, err := tpkt.ReadFrame(rdpClientConn)
AwaitClientRequest ==
    /\ hpc = "AwaitClientRequest" /\ pc = "idle"
    /\ pc' = "probe"
    /\ start' = pos
    /\ headerBuf' = <<>>
    /\ pduLength' = -1
    /\ retFrame' = <<>>
    /\ retAction' = "ActionUnknown"
    /\ retErr' = "nil"
    /\ UNCHANGED <<stream, endKind, pos, codecVars, handleVars, relayVars>>

\* ReadFrame returned: the error check, rdcleanpath.Unmarshal(frame), its error check
DecodeRequest ==
    /\ hpc = "AwaitClientRequest" /\ pc = "done"
    /\ pc' = "idle"
    /\ IF retErr # "nil"
       THEN Return("read frame") /\ UNCHANGED <<frame, decoded>>
       ELSE \E pdu \in {Unmarshal(retFrame)} :
               /\ frame' = retFrame
               /\ decoded' = pdu
               /\ IF pdu.err # "nil"
                  THEN Return("decode rdcleanpath pdu")
                  ELSE Proceed("AwaitClientRequest")
    /\ UNCHANGED <<stream, endKind, pos, start, headerBuf, pduLength, retFrame, retAction,
                   retErr, cpc, origin, args, cleanPathResp, peer, cleanPathRespDer, sent,
                   serverConn, serverLog, serverGot, clientGot, x224Resp,
                   peerCertificates, certChain, relayVars>>

\* rdpServerConn, err := net.Dial("tcp", cleanPathReq.Destination)
DialBackend ==
    /\ hpc = "DialBackend"
    /\ \E ok \in BOOLEAN :
          IF ok /\ decoded.pdu.Destination # <<>>
          THEN /\ serverConn' = "tcp"
               /\ serverLog' = Append(serverLog, "Dial")
               /\ Proceed("DialBackend")
          ELSE Return("dial server") /\ UNCHANGED <<serverConn, serverLog>>
    /\ UNCHANGED <<frameVars, codecVars, serverGot, clientGot, x224Resp, peerCertificates,
                   certChain, relayVars>>

\* rdpServerConn.Write(append(blob, x224...)), one call
ForwardConnectionPdu ==
    /\ hpc = "ForwardConnectionPdu"
    /\ serverLog' = Append(serverLog, "Write")
    /\ \E ok \in BOOLEAN :
          IF ok
          THEN /\ serverGot' = Append(serverGot, ForwardPayload(decoded.pdu))
               /\ Proceed("ForwardConnectionPdu")
          ELSE Return("conn write") /\ UNCHANGED serverGot
    /\ UNCHANGED <<frameVars, codecVars, serverConn, clientGot, x224Resp,
                   peerCertificates, certChain, relayVars>>

\* x224Resp, _, err := tpkt.ReadFrame(rdpServerConn): the reader is now the backend
AwaitBackendReply ==
    /\ hpc = "AwaitBackendReply" /\ pc = "idle"
    /\ stream' \in BackendReplies
    /\ endKind' \in {"EOF", "fault"}
    /\ pos' = 0
    /\ start' = 0
    /\ pc' = "probe"
    /\ headerBuf' = <<>>
    /\ pduLength' = -1
    /\ retFrame' = <<>>
    /\ retAction' = "ActionUnknown"
    /\ retErr' = "nil"
    /\ serverLog' = Append(serverLog, "Read")
    /\ UNCHANGED <<codecVars, hpc, completed, handleErr, serverConn, serverGot, clientGot,
                   x224Resp, peerCertificates, certChain, relayVars>>

\* ReadFrame returned: the error check
KeepBackendReply ==
    /\ hpc = "AwaitBackendReply" /\ pc = "done"
    /\ pc' = "idle"
    /\ IF retErr # "nil"
       THEN Return("conn read") /\ UNCHANGED x224Resp
       ELSE x224Resp' = retFrame /\ Proceed("AwaitBackendReply")
    /\ UNCHANGED <<stream, endKind, pos, start, headerBuf, pduLength, retFrame, retAction,
                   retErr, codecVars, serverConn, serverLog, serverGot, clientGot,
                   peerCertificates, certChain, relayVars>>

\* certChain := [][]byte{}; tlsConn := tls.Client(...); tlsConn.HandshakeContext(ctx)
TLSUpgrade ==
    /\ hpc = "TLSUpgrade"
    /\ certChain' = Chain(<<>>)
    /\ serverLog' = Append(serverLog, "Handshake")
    /\ \E ok \in BOOLEAN :
          IF ok
          THEN /\ peerCertificates' \in PeerCertChains
               /\ serverConn' = "tls"
               /\ Proceed("TLSUpgrade")
          ELSE Return("tls server") /\ UNCHANGED <<peerCertificates, serverConn>>
    /\ UNCHANGED <<frameVars, codecVars, serverGot, clientGot, x224Resp, relayVars>>

\* the certificate count check and the loop collecting cert.Raw
CollectCertChain ==
    /\ hpc = "CollectCertChain"
    /\ IF ~CertsOk(Len(peerCertificates))
       THEN Return("no peer certificates found") /\ UNCHANGED certChain
       ELSE /\ certChain' = CollectRaw(certChain, peerCertificates)
            /\ Proceed("CollectCertChain")
    /\ UNCHANGED <<frameVars, codecVars, serverConn, serverLog, serverGot, clientGot,
                   x224Resp, peerCertificates, relayVars>>

\* NewResp, Marshal, rdpClientConn.Write(cleanPathRespDer), each with its error check
SendClientResponse ==
    /\ hpc = "SendClientResponse"
    /\ \E a \in RemoteAddrs :
       \E resp \in {NewResp(a, Bytes(x224Resp), certChain)} :
       \E der \in {Marshal(resp)} :
          /\ args' = [serverAddr |-> a, x224Pdu |-> Bytes(x224Resp), x509Chain |-> certChain]
          /\ cleanPathResp' = resp
          /\ cleanPathRespDer' = der
          /\ IF der.err # "nil"
             THEN Return("rdcleanpath marshal") /\ UNCHANGED clientGot
             ELSE \E ok \in BOOLEAN :
                     IF ok
                     THEN /\ clientGot' = Append(clientGot, der.der)
                          /\ Proceed("SendClientResponse")
                     ELSE Return("write message") /\ UNCHANGED clientGot
    /\ UNCHANGED <<frameVars, cpc, origin, peer, sent, frame, decoded, serverConn,
                   serverLog, serverGot, x224Resp, peerCertificates, certChain, relayVars>>

(* the relay: errgroup.WithContext(ctx), three group.Go, group.Wait *)

\* io.Copy(dst, src) of each copy goroutine
CopySrc(t) == IF t = "c2s" THEN "client" ELSE "server"
CopyDst_Server(t) == "server"
CopyDst(t) == IF t = "c2s" THEN "server" ELSE "client"
Copiers == {"c2s", "s2c"}

\* group, ctx := errgroup.WithContext(ctx): the derived ctx is done when the parent
\* is, and when the group cancels it
DoneSignal_GroupOnly(parent, group) == group
DoneSignal(parent, group) == parent \/ group

\* a Write on a stream that Close was called on fails
WriteFails_Never(c) == FALSE
WriteFails(c) == closed[c]

\* the three group.Go calls
StartRelay ==
    /\ hpc = "Relay" /\ task = [t \in Tasks |-> "idle"]
    /\ task' = [t \in Tasks |-> IF t = "watcher" THEN "wait" ELSE "read"]
    /\ UNCHANGED <<frameVars, codecVars, handleVars, closed, pending, delivered, peerState,
                   copied, ctxDone, cancelAt, groupCtxDone, groupErr, lateWrites>>

\* a goroutine of the group returns err: the first non-nil error is kept and
\* cancels the derived context
Finish(t, err) ==
    /\ task' = [task EXCEPT ![t] = "done"]
    /\ IF err # "nil" /\ groupErr = "nil"
       THEN groupErr' = err /\ groupCtxDone' = TRUE
       ELSE UNCHANGED <<groupErr, groupCtxDone>>

\* src.Read returns a chunk (one that arrived before Close may still be returned)
CopyReadData(t) ==
    /\ task[t] = "read" /\ pending[CopySrc(t)] > 0
    /\ pending' = [pending EXCEPT ![CopySrc(t)] = @ - 1]
    /\ task' = [task EXCEPT ![t] = "write"]
    /\ UNCHANGED <<frameVars, codecVars, handleVars, closed, delivered, peerState, copied,
                   ctxDone, cancelAt, groupCtxDone, groupErr, lateWrites>>

\* src.Read fails because Close was called on src: io.Copy returns the error
CopyReadClosed(t) ==
    /\ task[t] = "read" /\ closed[CopySrc(t)]
    /\ Finish(t, "io error")
    /\ UNCHANGED <<frameVars, codecVars, handleVars, closed, pending, delivered, peerState,
                   copied, ctxDone, cancelAt, lateWrites>>

\* src.Read reports the peer's end: io.EOF makes io.Copy return nil, a fault
\* makes it return the error
CopyReadEnd(t) ==
    /\ task[t] = "read" /\ ~closed[CopySrc(t)] /\ pending[CopySrc(t)] = 0
    /\ peerState[CopySrc(t)] # "open"
    /\ Finish(t, IF peerState[CopySrc(t)] = "eof" THEN "nil" ELSE "io error")
    /\ UNCHANGED <<frameVars, codecVars, handleVars, closed, pending, delivered, peerState,
                   copied, ctxDone, cancelAt, lateWrites>>

\* dst.Write of the chunk: it fails on a closed stream, may fail when the peer
\* is gone, and otherwise succeeds
CopyWrite(t) ==
    /\ task[t] = "write"
    /\ \E ok \in BOOLEAN :
          /\ ok => ~WriteFails(CopyDst(t))
          /\ ~ok => WriteFails(CopyDst(t)) \/ peerState[CopyDst(t)] = "gone"
          /\ IF ok
             THEN /\ copied' = [copied EXCEPT ![CopyDst(t)] = @ + 1]
                  /\ lateWrites' = IF ctxDone THEN lateWrites \cup {CopyDst(t)}
                                   ELSE lateWrites
                  /\ task' = [task EXCEPT ![t] = "read"]
                  /\ UNCHANGED <<groupErr, groupCtxDone>>
             ELSE Finish(t, "io error") /\ UNCHANGED <<copied, lateWrites>>
    /\ UNCHANGED <<frameVars, codecVars, handleVars, closed, pending, delivered, peerState,
                   ctxDone, cancelAt>>

\* <-ctx.Done() returns
WatcherWake ==
    /\ task["watcher"] = "wait" /\ DoneSignal(ctxDone, groupCtxDone)
    /\ task' = [task EXCEPT !["watcher"] = "closeClient"]
    /\ UNCHANGED <<frameVars, codecVars, handleVars, closed, pending, delivered, peerState,
                   copied, ctxDone, cancelAt, groupCtxDone, groupErr, lateWrites>>

\* rdpClientConn.Close()
WatcherCloseClient ==
    /\ task["watcher"] = "closeClient"
    /\ closed' = [closed EXCEPT !["client"] = TRUE]
    /\ task' = [task EXCEPT !["watcher"] = "closeServer"]
    /\ UNCHANGED <<frameVars, codecVars, handleVars, pending, delivered, peerState, copied,
                   ctxDone, cancelAt, groupCtxDone, groupErr, lateWrites>>

\* rdpServerConn.Close(); return nil
WatcherCloseServer ==
    /\ task["watcher"] = "closeServer"
    /\ closed' = [closed EXCEPT !["server"] = TRUE]
    /\ Finish("watcher", "nil")
    /\ UNCHANGED <<frameVars, codecVars, handleVars, pending, delivered, peerState, copied,
                   ctxDone, cancelAt, lateWrites>>

\* return group.Wait(): every goroutine returned; Wait cancels the derived context
GroupWait ==
    /\ hpc = "Relay" /\ \A t \in Tasks : task[t] = "done"
    /\ Return(groupErr)
    /\ groupCtxDone' = TRUE
    /\ UNCHANGED <<frameVars, codecVars, serverConn, serverLog, serverGot, clientGot,
                   x224Resp, peerCertificates, certChain, task, closed, pending, delivered,
                   peerState, copied, ctxDone, cancelAt, groupErr, lateWrites>>

\* main's handler: defer ws.Close() runs when proxy.Handle returned
HandlerReturns ==
    /\ hpc = "Returned"
    /\ hpc' = "HandlerDone"
    /\ closed' = [closed EXCEPT !["client"] = TRUE]
    /\ UNCHANGED <<frameVars, codecVars, completed, handleErr, serverConn, serverLog,
                   serverGot, clientGot, x224Resp, peerCertificates, certChain, task,
                   pending, delivered, peerState, copied, ctxDone, cancelAt, groupCtxDone,
                   groupErr, lateWrites>>

(* the environment *)

\* the ctx given to Handle is cancelled
Cancel ==
    /\ ~ctxDone /\ hpc \notin {"Returned", "HandlerDone"}
    /\ ctxDone' = TRUE
    /\ cancelAt' = IF hpc = "Relay" THEN "Relay" ELSE "handshake"
    /\ UNCHANGED <<frameVars, codecVars, handleVars, task, closed, pending, delivered,
                   peerState, copied, groupCtxDone, groupErr, lateWrites>>

\* a peer sends a chunk during the relay
PeerSends(c) ==
    /\ hpc = "Relay" /\ peerState[c] = "open" /\ delivered[c] < MaxChunks
    /\ delivered' = [delivered EXCEPT ![c] = @ + 1]
    /\ pending' = [pending EXCEPT ![c] = @ + 1]
    /\ UNCHANGED <<frameVars, codecVars, handleVars, task, closed, peerState, copied,
                   ctxDone, cancelAt, groupCtxDone, groupErr, lateWrites>>

\* a peer ends its side: the backend in order (TLS close_notify, read as io.EOF)
\* or by a fault, the client always by an error of the WebSocket reader
PeerEnds(c) ==
    /\ hpc = "Relay" /\ peerState[c] = "open"
    /\ \E how \in (IF c = "server" THEN {"eof", "gone"} ELSE {"gone"}) :
          peerState' = [peerState EXCEPT ![c] = how]
    /\ UNCHANGED <<frameVars, codecVars, handleVars, task, closed, pending, delivered,
                   copied, ctxDone, cancelAt, groupCtxDone, groupErr, lateWrites>>

\* Handle was called: the client's request is what the client stream delivers
InitHandle ==
    /\ peer \in HandleRequests
    /\ sent = PeerEncode(peer)
    /\ stream = sent
    /\ endKind = "fault"
    /\ pos = 0
    /\ start = 0
    /\ pc = "idle"
    /\ headerBuf = <<>>
    /\ pduLength = -1
    /\ retFrame = <<>>
    /\ retAction = "ActionUnknown"
    /\ retErr = "nil"
    /\ cpc = "start"
    /\ origin = "none"
    /\ args = NoArgs
    /\ cleanPathResp = ZeroPdu
    /\ cleanPathRespDer = Enc(<<>>)
    /\ frame = <<>>
    /\ decoded = NoResult
    /\ hpc = "AwaitClientRequest"
    /\ completed = <<>>
    /\ handleErr = "running"
    /\ serverConn = "nil"
    /\ serverLog = <<>>
    /\ serverGot = <<>>
    /\ clientGot = <<>>
    /\ x224Resp = <<>>
    /\ peerCertificates = <<>>
    /\ certChain = NilChain
    /\ task = [t \in Tasks |-> "idle"]
    /\ closed = [c \in Conns |-> FALSE]
    /\ pending = [c \in Conns |-> 0]
    /\ delivered = [c \in Conns |-> 0]
    /\ peerState = [c \in Conns |-> "open"]
    /\ copied = [c \in Conns |-> 0]
    /\ ctxDone = FALSE
    /\ cancelAt = "never"
    /\ groupCtxDone = FALSE
    /\ groupErr = "nil"
    /\ lateWrites = {}

\* the steps of the handshake
HandshakeStep ==
    \/ AwaitClientRequest
    \/ ReadProbe
    \/ ReadFastPathExt
    \/ ReadLengthExt
    \/ ReadFastPathPayload
    \/ ReadTpktExt
    \/ ReadTpktPayload
    \/ DecodeRequest
    \/ DialBackend
    \/ ForwardConnectionPdu
    \/ AwaitBackendReply
    \/ KeepBackendReply
    \/ TLSUpgrade
    \/ CollectCertChain
    \/ SendClientResponse

\* the steps of the relay: the goroutines, Wait, and the return to main
RelayStep ==
    \/ StartRelay
    \/ \E t \in Copiers : CopyReadData(t)
    \/ \E t \in Copiers : CopyReadClosed(t)
    \/ \E t \in Copiers : CopyReadEnd(t)
    \/ \E t \in Copiers : CopyWrite(t)
    \/ WatcherWake
    \/ WatcherCloseClient
    \/ WatcherCloseServer
    \/ GroupWait
    \/ HandlerReturns

\* what the peers and the caller's context do
EnvStep ==
    \/ Cancel
    \/ \E c \in Conns : PeerSends(c)
    \/ \E c \in Conns : PeerEnds(c)

NextHandle == HandshakeStep \/ RelayStep \/ EnvStep

SpecHandle == InitHandle /\ [][NextHandle]_vars

\* a goroutine of the relay that can take a step is eventually scheduled
SpecHandleFair == SpecHandle /\ WF_vars(RelayStep)

-----------------------------------------------------------------------------
(* Properties of Handle, checked under SpecHandle and SpecHandleFair *)

IsPrefix(a, b) == Len(a) <= Len(b) /\ SubSeq(b, 1, Len(a)) = a
HandshakeSteps == {HandshakeOrder[i] : i \in 1..Len(HandshakeOrder)}
RelayStarted == \E t \in Tasks : task[t] # "idle"
HandleReturned == hpc \in {"Returned", "HandlerDone"}

\* C11: the handshake steps succeed in the fixed order read-client-request, dial,
\* write to backend, read backend reply, TLS handshake, collect certificates,
\* write response; the step Handle is at is always the one after the last that
\* succeeded, so none starts early and none is entered twice; the calls on the
\* backend connection come in the order Dial, Write, Read, Handshake; the relay
\* goroutines are started only after all seven steps succeeded and the response
\* was written to the client.
C11_StrictlyLinearHandshake ==
    /\ IsPrefix(completed, HandshakeOrder)
    /\ hpc \in HandshakeSteps => hpc = HandshakeOrder[Len(completed) + 1]
    /\ IsPrefix(serverLog, <<"Dial", "Write", "Read", "Handshake">>)
    /\ hpc = "Relay" => completed = HandshakeOrder
    /\ RelayStarted => completed = HandshakeOrder /\ Len(clientGot) = 1

\* the three goroutines run after a handshake that went through all seven steps
C11_Witness ==
    /\ hpc = "Relay" /\ RelayStarted /\ completed = HandshakeOrder
    /\ serverLog = <<"Dial", "Write", "Read", "Handshake">>
    /\ task["c2s"] = "write"

HandshakeFailed == HandleReturned /\ completed # HandshakeOrder
NoRepeats(log) == Cardinality({log[i] : i \in 1..Len(log)}) = Len(log)

\* C12: a handshake that did not get through all seven steps makes Handle return
\* an error, with no relay goroutine started and nothing written to the client;
\* a frame, decode, dial, write, read, TLS or certificate-count failure stops
\* Handle at that step; no step and no call on the backend is repeated; the
\* client gets at most one message from the handshake, and it is a response that
\* decodes; when main's handler is done the client's connection is closed.
C12_HandshakeAllOrNothing ==
    /\ HandshakeFailed =>
           /\ handleErr \notin {"nil", "running"}
           /\ ~RelayStarted
           /\ clientGot = <<>>
    /\ Len(completed) >= 1 => frame # <<>> /\ decoded.err = "nil" /\ ~decoded.isNil
    /\ Len(completed) >= 2 => serverConn # "nil"
    /\ Len(completed) >= 3 => Len(serverGot) = 1
    /\ Len(completed) >= 4 => x224Resp # <<>>
    /\ Len(completed) >= 5 => serverConn = "tls"
    /\ Len(completed) >= 6 => peerCertificates # <<>>
    /\ NoRepeats(completed) /\ NoRepeats(serverLog)
    /\ Len(clientGot) <= 1
    /\ clientGot # <<>> =>
           /\ completed = HandshakeOrder
           /\ Unmarshal(clientGot[1]).err = "nil"
    /\ hpc = "HandlerDone" => closed["client"]

\* the backend offered no certificate: Handle returned the error, the client got
\* nothing and its connection was closed
C12_Witness ==
    /\ hpc = "HandlerDone" /\ handleErr = "no peer certificates found"
    /\ serverConn = "tls" /\ peerCertificates = <<>>
    /\ clientGot = <<>> /\ closed["client"] /\ ~RelayStarted

\* the write of the response failed
C12_WitnessWrite ==
    /\ hpc = "Returned" /\ handleErr = "write message"
    /\ clientGot = <<>> /\ ~RelayStarted /\ Len(completed) = 6

BothClosed == closed["client"] /\ closed["server"]

\* C13: during the relay, once any one of the three goroutines has finished, for
\* whatever reason, both streams get closed, the other goroutines finish and
\* Handle returns.
C13_FirstToFinishEndsSession ==
    \A t \in Tasks :
        (hpc = "Relay" /\ task[t] = "done") ~> (HandleReturned /\ BothClosed)

\* C13, what the code does: a goroutine that finished with an error, or the
\* cancellation of ctx, ends the session; a copy loop that finished on io.EOF
\* (nil error) does not cancel the group's context.
C13_ErrorEndsSession ==
    (hpc = "Relay" /\ RelayStarted /\ (groupErr # "nil" \/ ctxDone))
        ~> (HandleReturned /\ BothClosed)

\* the backend-to-client copy ended on the backend's orderly end while the
\* client stays connected: nothing closes the streams and Wait does not return
C13_CleanEndLeavesSessionOpen ==
    /\ hpc = "Relay" /\ task["s2c"] = "done" /\ groupErr = "nil" /\ ~ctxDone
    /\ task["watcher"] = "wait" /\ task["c2s"] = "read"
    /\ peerState["server"] = "eof" /\ peerState["client"] = "open"
    /\ pending["client"] = 0 /\ ~closed["client"] /\ ~closed["server"]
    /\ ~ENABLED RelayStep

AllTasksDone == \A t \in Tasks : task[t] = "done"

\* C14: if ctx is cancelled while the relay is active, then eventually the
\* watcher has closed the client stream and the backend stream, both copy loops
\* have terminated and Handle has returned.
C14_CancelEndsRelay ==
    (hpc = "Relay" /\ RelayStarted /\ ctxDone)
        ~> (HandleReturned /\ BothClosed /\ AllTasksDone)

\* ctx was cancelled during the relay, while both copy loops were running, and
\* Handle returned with both streams closed
C14_Witness ==
    /\ hpc = "Returned" /\ cancelAt = "Relay" /\ completed = HandshakeOrder
    /\ BothClosed /\ AllTasksDone
    /\ peerState = [c \in Conns |-> "open"]

\* C15 as stated: once ctx is cancelled during an active relay, no further Write
\* on either stream succeeds, whatever the interleaving of the watcher and the
\* copy loops.
C15_NoWriteAfterCancel == cancelAt = "Relay" => lateWrites = {}

\* C15 as amended: the watcher closes both streams (C14); between the
\* cancellation and the close of a stream a copy loop's Write on it can still
\* succeed; once Close was called on a stream it stays closed and no Write on it
\* succeeds; a copy loop whose Write meets a closed destination, or whose Read
\* meets a closed source with nothing left to deliver, terminates with that call.
C15_NoWriteAfterClose ==
    [][/\ \A c \in Conns : closed[c] => closed'[c] /\ copied'[c] = copied[c]
       /\ \A c \in Conns : (c \in lateWrites' \ lateWrites) => ctxDone /\ ~closed[c]
       /\ \A t \in Copiers :
             (task[t] = "write" /\ closed[CopyDst(t)] /\ task'[t] # "write")
                 => task'[t] = "done"
       /\ \A t \in Copiers :
             (task[t] = "read" /\ closed[CopySrc(t)] /\ pending[CopySrc(t)] = 0
              /\ task'[t] # "read")
                 => task'[t] = "done"]_vars

\* ctx was cancelled during the relay, a copy loop's Write on the backend still
\* succeeded afterwards, and then the watcher closed both streams
C15_Witness ==
    /\ cancelAt = "Relay" /\ "server" \in lateWrites
    /\ BothClosed /\ AllTasksDone /\ copied["server"] = 1

\* who is inside a Read on stream c: Handle itself while one of its ReadFrame
\* calls runs, a copy loop while it reads its source
InReadFrame == pc \notin {"idle", "done"}
Readers(c) ==
    {t \in Copiers : task[t] = "read" /\ CopySrc(t) = c}
    \cup (IF InReadFrame /\ hpc = "AwaitClientRequest" /\ c = "client" THEN {"Handle"} ELSE {})
    \cup (IF InReadFrame /\ hpc = "AwaitBackendReply" /\ c = "server" THEN {"Handle"} ELSE {})
\* who is inside a Write on stream c
Writers(c) == {t \in Copiers : task[t] = "write" /\ CopyDst(t) = c}

\* C16: each stream has at most one reader and at most one writer at any time;
\* while Handle runs the handshake no goroutine exists; during the relay Handle
\* reads nothing, the client-to-backend copy is the only reader of the client
\* stream and the only writer of the backend stream, the backend-to-client copy
\* the only reader of the backend stream and the only writer of the client
\* stream, and the watcher only closes.
C16_OneReaderOneWriter ==
    /\ [](/\ \A c \in Conns : Cardinality(Readers(c)) <= 1 /\ Cardinality(Writers(c)) <= 1
          /\ hpc \in HandshakeSteps => ~RelayStarted
          /\ RelayStarted => ~InReadFrame
          /\ Readers("client") \subseteq {"Handle", "c2s"}
          /\ Readers("server") \subseteq {"Handle", "s2c"}
          /\ Writers("server") \subseteq {"c2s"}
          /\ Writers("client") \subseteq {"s2c"}
          /\ task["watcher"] \in {"idle", "wait", "closeClient", "closeServer", "done"})
    /\ [][/\ copied'["server"] # copied["server"] => task["c2s"] = "write" /\ task'["c2s"] = "read"
          /\ copied'["client"] # copied["client"] => task["s2c"] = "write" /\ task'["s2c"] = "read"
          /\ pending'["client"] < pending["client"] => task["c2s"] = "read" /\ task'["c2s"] = "write"
          /\ pending'["server"] < pending["server"] => task["s2c"] = "read" /\ task'["s2c"] = "write"
          /\ (RelayStarted /\ ~closed["server"] /\ closed'["server"]) =>
                 task["watcher"] = "closeServer"]_vars

\* both copy loops are inside a Write at the same time, each on its own stream
C16_Witness ==
    /\ hpc = "Relay" /\ task["c2s"] = "write" /\ task["s2c"] = "write"
    /\ Writers("server") = {"c2s"} /\ Writers("client") = {"s2c"}
    /\ task["watcher"] = "wait"

CallsOf(kind) == {i \in 1..Len(serverLog) : serverLog[i] = kind}

\* C17: the first bytes the backend connection takes are the request's
\* preconnectionBlob immediately followed by its x224ConnectionPdu, handed over
\* in exactly one Write call, and that call comes before any read from the
\* backend and before the TLS handshake.
C17_BlobThenPduInOneWrite ==
    /\ Len(completed) < 3 => serverGot = <<>>
    /\ Len(completed) >= 3 =>
           /\ Len(serverGot) >= 1
           /\ serverGot[1] = peer.PreconnectionBlob.v \o peer.X224ConnectionPdu.v
    /\ hpc \in HandshakeSteps => Len(serverGot) <= 1
    /\ Cardinality(CallsOf("Write")) <= 1
    /\ \A i \in CallsOf("Read") \cup CallsOf("Handshake") :
           /\ Len(completed) >= 3
           /\ \E j \in CallsOf("Write") : j < i

\* a request with a preconnection blob: the backend got blob and PDU in one
\* write, and the TLS handshake came after it
C17_Witness ==
    /\ Len(completed) >= 5 /\ serverConn = "tls"
    /\ peer.PreconnectionBlob = Present(<<98>>)
    /\ serverGot = <<<<98>> \o Pad(4)>>
    /\ serverLog = <<"Dial", "Write", "Read", "Handshake">>

\* the certificate chain the TLS layer supplied, as a [][]byte
SuppliedChain == Chain([i \in 1..Len(peerCertificates) |-> Bytes(peerCertificates[i])])

\* C18: a Handshake Response written to the client carries a non-empty
\* certificate chain that is exactly the raw peer certificates the TLS layer
\* supplied, same count and same order, and a connection PDU that is byte for
\* byte the one frame read from the backend.
C18_ResponseCarriesChainAndReply ==
    clientGot # <<>> =>
        \A resp \in {Unmarshal(clientGot[1])} :
            /\ resp.err = "nil"
            /\ Len(peerCertificates) >= 1
            /\ resp.pdu.ServerCertChain = SuppliedChain
            /\ Len(resp.pdu.ServerCertChain.certs) = Len(peerCertificates)
            /\ \A i \in 1..Len(peerCertificates) :
                   resp.pdu.ServerCertChain.certs[i].b = peerCertificates[i]
            /\ resp.pdu.X224ConnectionPdu = Bytes(x224Resp)
            /\ x224Resp = retFrame /\ retAction = "ActionX224"
            /\ x224Resp = SubSeq(stream, 1, BigEndianUint16(stream[3], stream[4]))

\* the client got a response with a chain of two different certificates
C18_Witness ==
    /\ clientGot # <<>> /\ Len(peerCertificates) = 2
    /\ peerCertificates[1] # peerCertificates[2]
    /\ Unmarshal(clientGot[1]).pdu.ServerCertChain.certs[1].b = <<48, 3, 2, 1, 5>>
    /\ x224Resp = <<3, 0, 0, 11, 6, 208, 0, 0, 18, 52, 0>>

\* C19: whenever Handle has returned after the backend connection was opened,
\* Close has been called on the backend connection.
C19_BackendClosedOnReturn ==
    (HandleReturned /\ serverConn # "nil") => closed["server"]

\* C19, what the code does: the backend connection is closed when Handle returns
\* from the relay, and on no other return
C19_BackendClosedOnlyByRelay ==
    (HandleReturned /\ serverConn # "nil") =>
        (closed["server"] <=> completed = HandshakeOrder)

\* the TLS handshake failed: Handle returned, main closed the client's
\* connection, and the dialled backend connection was never closed
C19_BackendLeftOpen ==
    /\ hpc = "HandlerDone" /\ handleErr = "tls server"
    /\ serverConn = "tcp" /\ ~closed["server"] /\ closed["client"]

\* the ReadFrame call on the client stream has returned
RequestFrameRead == hpc = "AwaitClientRequest" /\ pc = "done"

\* C20: for every request the client sends as one encoded structure, whatever
\* the form of its length (one byte, 0x81 N, 0x82 hi lo), the frame ReadFrame
\* returns for it is exactly the bytes of the structure, and the request is
\* decoded.
C20_RequestFrameIsTheStructure ==
    /\ RequestFrameRead => retErr = "nil" /\ retFrame = sent
    /\ handleErr \notin {"read frame", "decode rdcleanpath pdu"}
    /\ Len(completed) >= 1 => frame = sent /\ decoded.err = "nil"

\* C20, what the code does: the structure's first byte 0x30 selects Fast-Path, so
\* its second byte is read as a Fast-Path length: a structure with a one-byte
\* length is framed exactly; for 0x81 N the frame is taken to hold 256 + N bytes
\* after a three-byte header, for 0x82 hi lo 512 + hi bytes, and ReadFrame fails
\* or returns a frame that is not the structure.
C20_OnlyShortRequestsFramed ==
    /\ (RequestFrameRead /\ sent[2] < 128) => retErr = "nil" /\ retFrame = sent
    /\ (RequestFrameRead /\ sent[2] = 129) =>
           /\ pduLength = 256 + sent[3] /\ Len(sent) = 3 + sent[3]
           /\ retErr # "nil"
    /\ (RequestFrameRead /\ sent[2] = 130) =>
           /\ pduLength = 512 + sent[3] /\ Len(sent) = 4 + sent[3] * 256 + sent[4]
           /\ (retErr = "nil" => retFrame = SubSeq(sent, 1, 3 + pduLength))
           /\ retFrame # sent
    /\ Len(completed) >= 1 => sent[2] < 128 /\ frame = sent
    /\ handleErr = "decode rdcleanpath pdu" => sent[2] = 130 /\ 
           decoded.err = "asn1: syntax error: data truncated"

\* a request of 128..255 body bytes: ReadFrame asked for 256 bytes more than the
\* client sent and failed
C20_LongRequestMisframed ==
    /\ RequestFrameRead /\ sent[1] = 48 /\ sent[2] = 129 /\ Len(sent) = 3 + sent[3]
    /\ Unmarshal(sent).err = "nil"
    /\ pduLength = 256 + sent[3] /\ retErr # "nil" /\ retFrame = <<>>

\* a request of more than 515 bytes: ReadFrame returned its first 517 bytes and
\* Unmarshal rejected them
C20_LargeRequestCut ==
    /\ handleErr = "decode rdcleanpath pdu" /\ sent[2] = 130
    /\ Len(frame) = 3 + 512 + sent[3] /\ Len(frame) < Len(sent)
    /\ Unmarshal(sent).err = "nil"

====
